---- MODULE Spec2Model ----
(***************************************************************************)
(* Model of go-mod-bootstrap's MessageBus metrics reporter                 *)
(* (bootstrap/metrics/reporter.go) and of the DIC typed accessor            *)
(* CommonClientFrom.                                                        *)
(*                                                                          *)
(* A Report call is modelled in three kinds of step: Begin (lines 66-76,   *)
(* up to the snapshot registry.Each takes), Visit (one invocation of the   *)
(* callback of lines 76-146, whole) and Return (lines 148-150).  Publish    *)
(* blocks on the transport, so other goroutines (a configuration update,   *)
(* another Report call) are interleaved between the visits.                 *)
(***************************************************************************)
EXTENDS Integers, Sequences, FiniteSets, TLC

VARIABLES
    config,          \* *r.config: the live config.TelemetryInfo the reporter points to
    serviceName,     \* r.serviceName
    registry,        \* the gometrics.Registry handed to Report: name -> kind
    pc,              \* per Report call: "idle", "each" (inside registry.Each), "done"
    metricTags,      \* per call: the metricTags argument
    todo,            \* per call: names of the Each snapshot not yet visited
    serviceTags,     \* per call: the local slice serviceTags (backing array and length)
    errs,            \* per call: the local errs
    publishedCount,  \* per call: the local publishedCount
    bus,             \* per call: the Publish calls r.messageClient received from it
    ret,             \* per call: the value its Report returned
    stable,          \* per call: the configuration has not changed since it began
    dic,             \* the DI container: service name -> stored instance
    queried,         \* the container as the last CommonClientFrom call found it
    client           \* what the last CommonClientFrom call returned

vars == <<config, serviceName, registry, pc, metricTags, todo, serviceTags, errs,
          publishedCount, bus, ret, stable, dic, queried, client>>

(***************************************************************************)
(* Bounds and input sets                                                    *)
(***************************************************************************)
\* readings of the integer metrics range over 1..MaxVal
MaxVal == 1

\* the goroutines that call Report: one ticker in Spec, two in SpecOverlap
Calls == {1, 2}

Names == {"m1", "m2"}

\* reporter.go:36-42
serviceNameTagKey == "service"
counterName == "counter"
gaugeName == "gauge"
gaugeFloat64Name == "gauge-float64"
timerName == "timer"

\* common.ContentTypeJSON
ContentTypeJSON == "application/json"

\* kinds of metric a gometrics.Registry stores; Histogram stands for those that
\* have no case in the type switch of Report (Histogram, Meter, Healthcheck)
SupportedKinds == {"Counter", "Gauge", "GaugeFloat64", "Timer"}
Kinds == SupportedKinds \cup {"Histogram"}

Int64(n) == [type |-> "int64", v |-> n]
Float64(n) == [type |-> "float64", v |-> n]
\* a float64 that encoding/json refuses (NaN, +Inf, -Inf)
NaN == [type |-> "float64", v |-> -1]

IntValues == 1..MaxVal

(***************************************************************************)
(* Go slices and maps                                                       *)
(***************************************************************************)
\* a slice is a backing array (its length is the capacity) and a length
NilSlice == [arr |-> <<>>, len |-> 0]
Cap(s) == Len(s.arr)
Elems(s) == SubSeq(s.arr, 1, s.len)
ZeroTag == [Name |-> "", Value |-> ""]

\* runtime.growslice for 32-byte elements, capacities up to 8 (no size-class rounding)
GrowCap(old, need) == IF need > 2 * old THEN need ELSE 2 * old

\* append(s, xs...): in place when the capacity allows, else on a fresh array
GoAppend(s, xs) ==
    LET need == s.len + Len(xs)
        newcap == IF need <= Cap(s) THEN Cap(s) ELSE GrowCap(Cap(s), need)
    IN  [arr |-> [i \in 1..newcap |->
                    IF i <= s.len THEN s.arr[i]
                    ELSE IF i <= need THEN xs[i - s.len]
                    ELSE IF i <= Cap(s) /\ need <= Cap(s) THEN s.arr[i]
                    ELSE ZeroTag],
         len |-> need]

\* whether append(s, xs...) wrote into the array s points to
InPlace(s, xs) == s.len + Len(xs) <= Cap(s)

RECURSIVE AppendEach(_, _)
AppendEach(s, xs) ==
    IF xs = <<>> THEN s ELSE AppendEach(GoAppend(s, <<Head(xs)>>), Tail(xs))

Perms(S) == {p \in [1..Cardinality(S) -> S] : \A i, j \in DOMAIN p : i # j => p[i] # p[j]}

\* m[key] of a Go map: the zero value (a nil map) when the key is absent
Lookup(m, key) == IF key \in DOMAIN m THEN m[key] ELSE <<>>

(***************************************************************************)
(* reporter.go                                                              *)
(***************************************************************************)
\* buildMetricTags: one append per map entry, in any order (Go map iteration);
\* the set of slices the call can return
buildMetricTags(tags) ==
    {AppendEach(NilSlice, [i \in 1..Cardinality(DOMAIN tags) |->
                              [Name |-> order[i], Value |-> tags[order[i]]]])
        : order \in Perms(DOMAIN tags)}

\* mutant: the reporter keeps the configuration it was created with
StaleConfig == [PublishTopicPrefix |-> "edgex/telemetry", Tags |-> <<>>,
                Metrics |-> ("m1" :> TRUE) @@ ("m2" :> TRUE)]

\* r.config, dereferenced when it is used
LiveConfig == config

\* config.TelemetryInfo.MetricEnabled
MetricEnabled(name) == name \in DOMAIN LiveConfig.Metrics /\ LiveConfig.Metrics[name]

\* mutant: the enablement test is dropped
SkipNever(name) == FALSE

\* lines 80-84: the callback returns at once for a metric that is not enabled
Skip(name) == ~MetricEnabled(name)

\* lines 70-74: the slices serviceTags can be
ServiceTags ==
    {GoAppend(static, <<[Name |-> serviceNameTagKey, Value |-> serviceName]>>)
        : static \in buildMetricTags(LiveConfig.Tags)}

\* mutant: the result of the append is kept in serviceTags
AppendTagsKept(svc, dyn) ==
    LET tags == GoAppend(svc, Elems(dyn))
    IN  [tags |-> tags, svc |-> tags]

\* line 86: tags := append(serviceTags, dyn...); the slice tags and the slice
\* serviceTags afterwards (same length, but its array is written when shared)
AppendTags(svc, dyn) ==
    LET tags == GoAppend(svc, Elems(dyn))
    IN  [tags |-> tags,
         svc  |-> IF InPlace(svc, Elems(dyn)) THEN [arr |-> tags.arr, len |-> svc.len]
                  ELSE svc]

\* metric.Snapshot(): the readings one snapshot of a metric of this kind can hold
Snapshots(kind) ==
    CASE kind = "Counter"      -> {[Count |-> Int64(n)] : n \in IntValues}
      [] kind = "Gauge"        -> {[Value |-> Int64(n)] : n \in IntValues}
      [] kind = "GaugeFloat64" -> {[Value |-> f] : f \in {Float64(3), NaN}}
      [] kind = "Timer"        -> {[Count |-> Int64(n), Min |-> Int64(10 + n),
                                    Max |-> Int64(20 + n), Mean |-> Float64(30 + n),
                                    StdDev |-> Float64(40 + n),
                                    Variance |-> Float64(50 + n)] : n \in IntValues}
      [] OTHER                 -> {[Count |-> Int64(0)]}

Field(name, value) == [Name |-> name, Value |-> value]

\* mutant: the timer's min and max readings are exchanged
FieldsSwapped(kind, snapshot) ==
    CASE kind = "Counter"      -> <<Field(counterName, snapshot.Count)>>
      [] kind = "Gauge"        -> <<Field(gaugeName, snapshot.Value)>>
      [] kind = "GaugeFloat64" -> <<Field(gaugeFloat64Name, snapshot.Value)>>
      [] kind = "Timer"        -> <<Field(timerName, snapshot.Count),
                                    Field("min", snapshot.Max),
                                    Field("max", snapshot.Min),
                                    Field("mean", snapshot.Mean),
                                    Field("stddev", snapshot.StdDev),
                                    Field("variance", snapshot.Variance)>>

\* lines 88-114: the fields of a metric of a supported kind
Fields(kind, snapshot) ==
    CASE kind = "Counter"      -> <<Field(counterName, snapshot.Count)>>
      [] kind = "Gauge"        -> <<Field(gaugeName, snapshot.Value)>>
      [] kind = "GaugeFloat64" -> <<Field(gaugeFloat64Name, snapshot.Value)>>
      [] kind = "Timer"        -> <<Field(timerName, snapshot.Count),
                                    Field("min", snapshot.Min),
                                    Field("max", snapshot.Max),
                                    Field("mean", snapshot.Mean),
                                    Field("stddev", snapshot.StdDev),
                                    Field("variance", snapshot.Variance)>>

\* dtos.ValidateMetricName: a blank name is refused
ValidName(n) == n # "" /\ n # " "

\* dtos.NewMetric(name, fields, tags): whether it returns an error
NewMetricFails(name, fields, tags) ==
    \/ ~ValidName(name)
    \/ fields = <<>>
    \/ \E i \in DOMAIN fields : ~ValidName(fields[i].Name)
    \/ \E i \in DOMAIN tags : ~ValidName(tags[i].Name)

NewMetric(name, fields, tags) == [Name |-> name, Fields |-> fields, Tags |-> tags]

\* json.Marshal(nextMetric): an UnsupportedValueError for a float it cannot encode
MarshalFails(metric) == \E i \in DOMAIN metric.Fields : metric.Fields[i].Value = NaN

\* the JSON document: its members, in the order of the struct
Marshal(metric) == <<<<"name", metric.Name>>, <<"fields", metric.Fields>>,
                     <<"tags", metric.Tags>>>>

\* baseTopic, lines 153-155
baseTopic == LiveConfig.PublishTopicPrefix \o "/" \o serviceName

\* mutant: the metric name is left out of the topic
TopicOfBase(name) == baseTopic

\* line 139
Topic(name) == baseTopic \o "/" \o name

\* the correlation identifiers of the envelopes the message client holds
HeldIDs == UNION {{bus[c][i].message.CorrelationID : i \in DOMAIN bus[c]} : c \in Calls}

\* mutant: the identifier is generated once and serves every envelope
ReusedString == IF HeldIDs = {} THEN 1 ELSE CHOOSE n \in HeldIDs : TRUE

\* uuid.NewString(): a value no other envelope carries (the random 122 bits are
\* represented by the least identifier not in use)
NewString == CHOOSE n \in 1..(Cardinality(HeldIDs) + 1) :
                 n \notin HeldIDs /\ \A m \in 1..(n - 1) : m \in HeldIDs

\* the error values of lines 117, 122, 129 and 141, by the parts of their message
ErrUnsupported(kind) == [msg |-> "metric type not supported", kind |-> kind, name |-> "", topic |-> ""]
ErrCreate(name) == [msg |-> "unable to create metric", kind |-> "", name |-> name, topic |-> ""]
ErrMarshal(name) == [msg |-> "failed to marshal metric", kind |-> "", name |-> name, topic |-> ""]
ErrPublish(name, topic) == [msg |-> "failed to publish metric", kind |-> "", name |-> name, topic |-> topic]

\* a nil error; a *multierror.Error is the sequence of its causes
NilError == <<>>

\* mutant: the new cause replaces the aggregate
MultierrorOverwrite(es, e) == <<e>>

\* multierror.Append(errs, err)
MultierrorAppend(es, e) == Append(es, e)

\* mutant: errs lives outside the call and is shared by the calls
SharedErrs(c) == errs[3 - c]

\* line 66: var errs error
NewErrs(c) == NilError

\* line 67
NewPublishedCount(c) == 0

\* mutant: a failing metric ends the iteration
RestAfterAbort(rest, failed) == IF failed THEN {} ELSE rest

\* registry.Each: the names still to visit after the callback returned, whether
\* it returned early (failed) or not
RestAfter(rest, failed) == rest

(***************************************************************************)
(* container: the typed accessor of the DI container                        *)
(***************************************************************************)
\* CommonClientName, line 183: di.TypeInstanceToName((*interfaces.CommonClient)(nil))
CommonClientName == "*interfaces.CommonClient"
DicNames == {CommonClientName, "*logger.LoggingClient", "*config.TelemetryInfo"}

\* instances a service may store: their dynamic type and their identity
Nil == [type |-> "nil", id |-> 0]
Panic == [type |-> "panic", id |-> 0]
Instances == {[type |-> "clients.CommonClient", id |-> 1],
              [type |-> "mocks.CommonClient", id |-> 2],
              [type |-> "logger.edgeXLogger", id |-> 3]}

\* the dynamic types that implement interfaces.CommonClient
ImplementsCommonClient(type) == type \in {"clients.CommonClient", "mocks.CommonClient"}

\* di.Get: the instance stored under the name, nil when there is none
Get(container, name) == IF name \in DOMAIN container THEN container[name] ELSE Nil

\* mutant: the single-value type assertion, which panics when it fails
CommonClientFromUnchecked(container) ==
    LET v  == Get(container, CommonClientName)
        ok == v # Nil /\ ImplementsCommonClient(v.type)
    IN  IF ~ok THEN Panic ELSE v

\* CommonClientFrom, lines 186-193: the comma-ok type assertion and the nil fallback
CommonClientFrom(container) ==
    LET v  == Get(container, CommonClientName)
        ok == v # Nil /\ ImplementsCommonClient(v.type)
    IN  IF ~ok THEN Nil ELSE v

(***************************************************************************)
(* Inputs                                                                   *)
(***************************************************************************)
Prefixes == {"edgex/telemetry", "events"}
StaticTags == {<<>>, ("env" :> "prod") @@ ("zone" :> "z1")}
\* an absent name, like a false switch, disables the metric
MetricSwitches == {<<>>, ("m1" :> TRUE), ("m1" :> FALSE) @@ ("m2" :> TRUE),
                   ("m1" :> TRUE) @@ ("m2" :> TRUE)}
Configs == [PublishTopicPrefix : Prefixes, Tags : StaticTags, Metrics : MetricSwitches]

InitConfig == [PublishTopicPrefix |-> "edgex/telemetry", Tags |-> <<>>,
               Metrics |-> [n \in Names |-> TRUE]]

Registries == UNION {[S -> Kinds] : S \in SUBSET Names}

MetricTagsArgs ==
    { <<>>,
      ("m1" :> ("env" :> "dev")) @@ ("m2" :> ("unit" :> "ms")),
      ("m1" :> ("" :> "x")) }

(***************************************************************************)
(* Actions                                                                  *)
(***************************************************************************)
\* NewMessageBusReporter, lines 52-61, and no Report call yet
InitReporter ==
    /\ serviceName = "core"
    /\ pc = [c \in Calls |-> "idle"]
    /\ metricTags = [c \in Calls |-> <<>>]
    /\ todo = [c \in Calls |-> {}]
    /\ serviceTags = [c \in Calls |-> NilSlice]
    /\ errs = [c \in Calls |-> NilError]
    /\ publishedCount = [c \in Calls |-> 0]
    /\ bus = [c \in Calls |-> <<>>]
    /\ ret = [c \in Calls |-> NilError]
    /\ stable = [c \in Calls |-> TRUE]
    /\ dic = <<>>
    /\ queried = <<>>
    /\ client = Nil

Init ==
    /\ config = InitConfig
    /\ registry \in Registries
    /\ InitReporter

\* the Writable configuration is updated by its owner
ConfigChange ==
    /\ \E cfg \in Configs \ {config} : config' = cfg
    /\ stable' = [c \in Calls |-> FALSE]
    /\ UNCHANGED <<serviceName, registry, pc, metricTags, todo, serviceTags, errs,
                   publishedCount, bus, ret, dic, queried, client>>

\* Report, lines 65-76: the locals, the service tags, the snapshot Each iterates
Begin(c) ==
    /\ pc[c] # "each"
    /\ \E mt \in MetricTagsArgs, svc \in ServiceTags :
          /\ metricTags' = [metricTags EXCEPT ![c] = mt]
          /\ serviceTags' = [serviceTags EXCEPT ![c] = svc]
    /\ errs' = [errs EXCEPT ![c] = NewErrs(c)]
    /\ publishedCount' = [publishedCount EXCEPT ![c] = NewPublishedCount(c)]
    /\ todo' = [todo EXCEPT ![c] = DOMAIN registry]
    /\ bus' = [bus EXCEPT ![c] = <<>>]
    /\ ret' = [ret EXCEPT ![c] = NilError]
    /\ stable' = [stable EXCEPT ![c] = TRUE]
    /\ pc' = [pc EXCEPT ![c] = "each"]
    /\ UNCHANGED <<config, serviceName, registry, dic, queried, client>>

\* what one invocation of the callback (lines 76-146) leaves behind, given the
\* order buildMetricTags produced (dyn), the snapshot read and what Publish returned
Callback(c, name, dyn, snapshot, publishOk) ==
    LET kind    == registry[name]
        at      == AppendTags(serviceTags[c], dyn)
        tags    == Elems(at.tags)
        fields  == Fields(kind, snapshot)
        metric  == NewMetric(name, fields, tags)
        message == [CorrelationID |-> NewString, Payload |-> Marshal(metric),
                    ContentType |-> ContentTypeJSON]
        topic   == Topic(name)
        same    == [svc |-> serviceTags[c], errs |-> errs[c],
                    count |-> publishedCount[c], bus |-> bus[c], failed |-> FALSE]
    IN  IF Skip(name) THEN same
        ELSE IF kind \notin SupportedKinds THEN
            [same EXCEPT !.svc = at.svc, !.failed = TRUE,
                         !.errs = MultierrorAppend(errs[c], ErrUnsupported(kind))]
        ELSE IF NewMetricFails(name, fields, tags) THEN
            [same EXCEPT !.svc = at.svc, !.failed = TRUE,
                         !.errs = MultierrorAppend(errs[c], ErrCreate(name))]
        ELSE IF MarshalFails(metric) THEN
            [same EXCEPT !.svc = at.svc, !.failed = TRUE,
                         !.errs = MultierrorAppend(errs[c], ErrMarshal(metric.Name))]
        ELSE IF ~publishOk THEN
            [same EXCEPT !.svc = at.svc, !.failed = TRUE,
                         !.bus = Append(bus[c], [message |-> message, topic |-> topic,
                                                 ok |-> FALSE, snapshot |-> snapshot]),
                         !.errs = MultierrorAppend(errs[c], ErrPublish(name, topic))]
        ELSE
            [same EXCEPT !.svc = at.svc,
                         !.bus = Append(bus[c], [message |-> message, topic |-> topic,
                                                 ok |-> TRUE, snapshot |-> snapshot]),
                         !.count = publishedCount[c] + 1]

\* registry.Each calls the callback for one more metric of its snapshot
Visit(c) ==
    /\ pc[c] = "each"
    /\ \E name \in todo[c] :
       \E dyn \in buildMetricTags(Lookup(metricTags[c], name)),
          snapshot \in Snapshots(registry[name]), publishOk \in BOOLEAN :
          LET after == Callback(c, name, dyn, snapshot, publishOk)
          IN  /\ serviceTags' = [serviceTags EXCEPT ![c] = after.svc]
              /\ errs' = [errs EXCEPT ![c] = after.errs]
              /\ publishedCount' = [publishedCount EXCEPT ![c] = after.count]
              /\ bus' = [bus EXCEPT ![c] = after.bus]
              /\ todo' = [todo EXCEPT ![c] = RestAfter(todo[c] \ {name}, after.failed)]
    /\ UNCHANGED <<config, serviceName, registry, pc, metricTags, ret, stable, dic, queried, client>>

\* lines 148-150, once Each has visited every metric of its snapshot
Return(c) ==
    /\ pc[c] = "each"
    /\ todo[c] = {}
    /\ ret' = [ret EXCEPT ![c] = errs[c]]
    /\ pc' = [pc EXCEPT ![c] = "done"]
    /\ UNCHANGED <<config, serviceName, registry, metricTags, todo, serviceTags, errs,
                   publishedCount, bus, stable, dic, queried, client>>

\* di.Container.Update: store an instance under a name
DicUpdate ==
    /\ \E name \in DicNames, inst \in Instances :
          dic' = [n \in DOMAIN dic \cup {name} |-> IF n = name THEN inst ELSE dic[n]]
    /\ UNCHANGED <<config, serviceName, registry, pc, metricTags, todo, serviceTags, errs,
                   publishedCount, bus, ret, stable, queried, client>>

\* a call site resolves the CommonClient
CallCommonClientFrom ==
    /\ client' = CommonClientFrom(dic)
    /\ queried' = dic
    /\ UNCHANGED <<config, serviceName, registry, pc, metricTags, todo, serviceTags, errs,
                   publishedCount, bus, ret, stable, dic>>

(***************************************************************************)
(* Specifications                                                           *)
(***************************************************************************)
\* report cycles run one after the other by the one ticker goroutine (call 1),
\* the configuration changing at any time
Next ==
    \/ ConfigChange
    \/ Begin(1)
    \/ Visit(1)
    \/ Return(1)

Spec == Init /\ [][Next]_vars

\* two goroutines call Report on the same reporter, their cycles overlapping
OverlapRegistries == {("m1" :> "Counter") @@ ("m2" :> "Histogram"),
                      ("m1" :> "GaugeFloat64") @@ ("m2" :> "Timer")}
OverlapConfigs == {InitConfig,
                   [PublishTopicPrefix |-> "events",
                    Tags |-> ("env" :> "prod") @@ ("zone" :> "z1"),
                    Metrics |-> ("m1" :> TRUE)]}

InitOverlap ==
    /\ config \in OverlapConfigs
    /\ registry \in OverlapRegistries
    /\ InitReporter

NextOverlap ==
    \/ \E c \in Calls : Begin(c)
    \/ \E c \in Calls : Visit(c)
    \/ \E c \in Calls : Return(c)

SpecOverlap == InitOverlap /\ [][NextOverlap]_vars

\* the container is filled and read
InitDI ==
    /\ config = InitConfig
    /\ registry = <<>>
    /\ InitReporter

NextDI ==
    \/ DicUpdate
    \/ CallCommonClientFrom

SpecDI == InitDI /\ [][NextDI]_vars

(***************************************************************************)
(* Properties                                                               *)
(***************************************************************************)
\* what the message client and the caller can observe
Entries(c) == {bus[c][i] : i \in DOMAIN bus[c]}
PayloadName(e) == e.message.Payload[1][2]
PayloadFields(e) == e.message.Payload[2][2]
PayloadTags(e) == e.message.Payload[3][2]
Causes(c) == {ret[c][i] : i \in DOMAIN ret[c]}

\* the metric is switched on in the configuration as it is now
Enabled(n) == n \in DOMAIN config.Metrics /\ config.Metrics[n]
EnabledNames == {n \in DOMAIN registry : Enabled(n)}

\* the call returned and the configuration is still the one it began under
Finished(c) == pc[c] = "done" /\ stable[c]

TagSet(m) == {[Name |-> k, Value |-> m[k]] : k \in DOMAIN m}

\* C1: a visit of a metric that the configuration disables makes no Publish call
\* and adds no error, whatever the metric's kind; and what Report returns is the
\* aggregate the visits built.
C1_DisabledSkipped ==
    [][\A c \in Calls :
          /\ \A n \in Names :
                (pc[c] = "each" /\ n \in todo[c] /\ n \notin todo'[c] /\ ~Enabled(n))
                    => (bus'[c] = bus[c] /\ errs'[c] = errs[c])
          /\ (pc[c] = "each" /\ pc'[c] = "done") => ret'[c] = errs[c]]_vars

\* a finished cycle visited a disabled metric of an unsupported kind, returned no
\* error, and published the other metric
C1_Witness ==
    /\ Finished(1)
    /\ \E n \in DOMAIN registry : ~Enabled(n) /\ registry[n] = "Histogram"
    /\ ret[1] = NilError
    /\ \E e \in Entries(1) : e.ok

\* C2: whatever failed during a cycle, every enabled metric of a supported kind
\* was handed to Publish unless its own record could not be built or serialized,
\* and every enabled metric of an unsupported kind has a cause naming its kind.
C2_FailureDoesNotStop ==
    \A c \in Calls : Finished(c) =>
        \A n \in EnabledNames :
            IF registry[n] \in SupportedKinds
            THEN \/ \E e \in Entries(c) : PayloadName(e) = n
                 \/ \E x \in Causes(c) :
                        /\ x.name = n
                        /\ x.msg \in {"unable to create metric", "failed to marshal metric"}
            ELSE \E x \in Causes(c) :
                    x.msg = "metric type not supported" /\ x.kind = registry[n]

\* a cycle met an unsupported kind and still published another metric
C2_Witness ==
    /\ Finished(1)
    /\ \E x \in Causes(1) : x.kind = "Histogram"
    /\ \E e \in Entries(1) : e.ok

\* C3: Report returns no error exactly when every enabled metric was published
\* successfully; otherwise the aggregate holds one cause for each enabled metric
\* that failed and none for a metric that was published or is disabled.
C3_AggregateExact ==
    \A c \in Calls : Finished(c) =>
        LET okNames == {PayloadName(e) : e \in {x \in Entries(c) : x.ok}}
            failed  == EnabledNames \ okNames
            named(n) == {i \in DOMAIN ret[c] : ret[c][i].name = n}
            ofKind(k) == {i \in DOMAIN ret[c] : ret[c][i].kind = k}
        IN  /\ okNames \subseteq EnabledNames
            /\ (ret[c] = NilError) <=> (failed = {})
            /\ Len(ret[c]) = Cardinality(failed)
            /\ \A n \in failed :
                  IF registry[n] \in SupportedKinds
                  THEN Cardinality(named(n)) = 1
                  ELSE Cardinality(ofKind(registry[n]))
                          = Cardinality({m \in failed : registry[m] = registry[n]})
            /\ \A n \in DOMAIN registry \ failed : named(n) = {}

\* a cycle in which both metrics failed
C3_Witness ==
    /\ Finished(1)
    /\ Len(ret[1]) = 2
    /\ ret[1][1].msg # ret[1][2].msg

\* C4: the tags of a published metric are the configured static tags, then
\* service=<service name>, then the metric's own dynamic tags, each entry once,
\* equal keys kept side by side, and nothing of another metric.
C4_TagList ==
    \A c \in Calls : (pc[c] \in {"each", "done"} /\ stable[c]) =>
        \A e \in Entries(c) :
            LET tags == PayloadTags(e)
                dt   == Lookup(metricTags[c], PayloadName(e))
                k    == Cardinality(DOMAIN config.Tags)
                d    == Cardinality(DOMAIN dt)
            IN  /\ Len(tags) = k + 1 + d
                /\ {tags[i] : i \in 1..k} = TagSet(config.Tags)
                /\ tags[k + 1] = [Name |-> "service", Value |-> serviceName]
                /\ {tags[i] : i \in (k + 2)..(k + 1 + d)} = TagSet(dt)

\* two metrics published in one cycle, each with a dynamic tag of its own, one of
\* them under a key the static tags use too, the service tags having spare capacity
C4_Witness ==
    /\ Finished(1)
    /\ Len(bus[1]) = 2
    /\ Cap(serviceTags[1]) > serviceTags[1].len
    /\ "env" \in DOMAIN config.Tags
    /\ "m1" \in DOMAIN metricTags[1] /\ "env" \in DOMAIN metricTags[1]["m1"]
    /\ "m2" \in DOMAIN metricTags[1]

\* C5: the fields of a published payload follow from the metric's kind and one
\* snapshot of it; a kind other than the four is never published.
C5_FieldsByKind ==
    \A c \in Calls : \A e \in Entries(c) :
        LET kind == registry[PayloadName(e)]
            s    == e.snapshot
            f    == PayloadFields(e)
        IN  CASE kind = "Counter"      -> f = <<[Name |-> "counter", Value |-> s.Count]>>
              [] kind = "Gauge"        -> f = <<[Name |-> "gauge", Value |-> s.Value]>>
              [] kind = "GaugeFloat64" -> f = <<[Name |-> "gauge-float64", Value |-> s.Value]>>
              [] kind = "Timer"        -> f = <<[Name |-> "timer", Value |-> s.Count],
                                                [Name |-> "min", Value |-> s.Min],
                                                [Name |-> "max", Value |-> s.Max],
                                                [Name |-> "mean", Value |-> s.Mean],
                                                [Name |-> "stddev", Value |-> s.StdDev],
                                                [Name |-> "variance", Value |-> s.Variance]>>
              [] OTHER                 -> FALSE

\* a timer and a float gauge published in one cycle
C5_Witness ==
    /\ pc[1] = "done"
    /\ {registry[PayloadName(e)] : e \in Entries(1)} = {"Timer", "GaugeFloat64"}

\* C6: every Publish call goes to <prefix>/<service name>/<name of the metric in
\* the payload>, the prefix being a configured one, and the current one when the
\* configuration did not change during the cycle.
C6_Topic ==
    \A c \in Calls : \A e \in Entries(c) :
        \E p \in Prefixes :
            /\ e.topic = p \o "/" \o serviceName \o "/" \o PayloadName(e)
            /\ stable[c] => p = config.PublishTopicPrefix

\* two metrics published to their two topics
C6_Witness ==
    /\ Finished(1)
    /\ {e.topic : e \in Entries(1)} = {"events/core/m1", "events/core/m2"}

\* C7: a cycle that runs under a configuration, whatever the configuration was
\* before, publishes the metrics that configuration enables and no other, to
\* topics of its prefix, with its static tags.
C7_LiveConfig ==
    \A c \in Calls : Finished(c) =>
        /\ {PayloadName(e) : e \in Entries(c)} \subseteq EnabledNames
        /\ Cardinality({e \in Entries(c) : e.ok}) + Len(ret[c]) = Cardinality(EnabledNames)
        /\ \A e \in Entries(c) :
              /\ e.topic = config.PublishTopicPrefix \o "/core/" \o PayloadName(e)
              /\ TagSet(config.Tags) \subseteq {PayloadTags(e)[i] : i \in DOMAIN PayloadTags(e)}
              /\ Len(PayloadTags(e)) > Cardinality(DOMAIN config.Tags)

\* a cycle under a configuration that differs from the one the reporter was
\* created with in its prefix, its tags and its switches
C7_Witness ==
    /\ Finished(1)
    /\ config.PublishTopicPrefix = "events"
    /\ config.Tags # <<>>
    /\ config.Metrics = ("m1" :> FALSE) @@ ("m2" :> TRUE)
    /\ "m1" \in DOMAIN registry
    /\ \E e \in Entries(1) : e.ok

\* C8: in one cycle no metric is handed to Publish twice (a failed Publish is
\* not repeated), an enabled metric that was built and serialized is handed to
\* it once, and no two Publish calls carry the same correlation identifier.
C8_OnePublishEach ==
    /\ \A c \in Calls : \A i, j \in DOMAIN bus[c] :
          i # j => PayloadName(bus[c][i]) # PayloadName(bus[c][j])
    /\ \A c, d \in Calls : \A i \in DOMAIN bus[c], j \in DOMAIN bus[d] :
          (c # d \/ i # j) =>
              bus[c][i].message.CorrelationID # bus[d][j].message.CorrelationID
    /\ \A c \in Calls : \A e \in Entries(c) : e.message.ContentType = "application/json"
    /\ \A c \in Calls : Finished(c) =>
          \A n \in EnabledNames :
              (registry[n] \in SupportedKinds /\ ~\E x \in Causes(c) :
                    x.name = n /\ x.msg \in {"unable to create metric", "failed to marshal metric"})
                  => Cardinality({i \in DOMAIN bus[c] : PayloadName(bus[c][i]) = n}) = 1

\* a cycle with two Publish calls, one of which failed
C8_Witness ==
    /\ Finished(1)
    /\ Len(bus[1]) = 2
    /\ \E e \in Entries(1) : ~e.ok
    /\ \E e \in Entries(1) : e.ok

\* C9: CommonClientFrom does not panic; it returns the instance stored under
\* CommonClientName when that instance is a CommonClient, and nil when nothing is
\* stored there or what is stored is of another type.
C9_CommonClientFrom ==
    /\ client # Panic
    /\ client = IF /\ CommonClientName \in DOMAIN queried
                   /\ queried[CommonClientName].type
                          \in {"clients.CommonClient", "mocks.CommonClient"}
                THEN queried[CommonClientName]
                ELSE Nil

\* the accessor met a logger stored under the CommonClient name
C9_Witness ==
    /\ CommonClientName \in DOMAIN queried
    /\ queried[CommonClientName].type = "logger.edgeXLogger"
    /\ client = Nil

\* C10: a step of a Report call leaves the reporter's fields, the configuration,
\* the registry, the caller's metricTags and every local of the other call as
\* they were; and what a call published, counted and returned is decided by the
\* registry, the configuration and its own metricTags, also when another call
\* on the same reporter overlaps it.
C10_Stateless ==
    /\ [](\A c \in Calls : pc[c] = "done" =>
            /\ {PayloadName(e) : e \in Entries(c)} \subseteq EnabledNames
            /\ \A i, j \in DOMAIN bus[c] :
                  i # j => PayloadName(bus[c][i]) # PayloadName(bus[c][j])
            /\ publishedCount[c] = Cardinality({i \in DOMAIN bus[c] : bus[c][i].ok})
            /\ Len(ret[c]) = Cardinality(EnabledNames) - publishedCount[c]
            /\ \A e \in Entries(c) :
                  LET tags == PayloadTags(e)
                      k    == Cardinality(DOMAIN config.Tags)
                  IN  {tags[i] : i \in (k + 2)..Len(tags)}
                          = TagSet(Lookup(metricTags[c], PayloadName(e))))
    /\ [][/\ config' = config /\ serviceName' = serviceName /\ registry' = registry
          /\ \A c \in Calls :
                /\ pc[c] = "each" => metricTags'[c] = metricTags[c]
                /\ (pc'[c] = pc[c] /\ todo'[c] = todo[c]) =>
                      /\ errs'[c] = errs[c] /\ bus'[c] = bus[c] /\ ret'[c] = ret[c]
                      /\ publishedCount'[c] = publishedCount[c]
                      /\ serviceTags'[c] = serviceTags[c]]_vars

\* two calls inside Each at once, with different metricTags, each having
\* published already, one of them with a failure on record
C10_Witness ==
    /\ pc[1] = "each" /\ pc[2] = "each"
    /\ metricTags[1] # metricTags[2]
    /\ bus[1] # <<>> /\ bus[2] # <<>>
    /\ errs[1] # NilError /\ errs[2] = NilError

====
